---------------------------- MODULE Spec2Model ----------------------------
(***************************************************************************)
(* passport-yandex-token: the YandexTokenStrategy of src/src/index.js.     *)
(*                                                                         *)
(* The strategy is constructed once, then serves authentication attempts:  *)
(* authenticate(req) extracts the tokens, asks the OAuth2 client for the   *)
(* profile document, userProfile's callback normalizes it and the          *)
(* integrator's verify function decides the attempt through `verified`.    *)
(* JavaScript values are records tagged with their type in field t.        *)
(***************************************************************************)
EXTENDS Integers, Sequences, FiniteSets, TLC

VARIABLES
  ctor,      \* "new" | "thrown" | "constructed": how `new YandexTokenStrategy` ended
  options,   \* arg: the constructor's argument _options; obj: the options object
             \* the constructor worked on, with the defaults it wrote into it
  strategy,  \* the fields of the constructed instance
  att,       \* att[a]: one authenticate(req) invocation and everything it caused
  direct     \* a direct call strategy.userProfile(token, done) with a recording done

vars == <<ctor, options, strategy, att, direct>>

-----------------------------------------------------------------------------
(* Bounds of the model *)

\* Number of authenticate invocations on the one instance.
NumAttempts == 2
\* How many times in all a verify function invokes its `verified` callback.
MaxDone == 2
\* Longest real_name (in characters) of the generated profile documents.
MaxNameLen == 3

-----------------------------------------------------------------------------
(* JavaScript values *)

Undefined == [t |-> "undefined"]
Null == [t |-> "null"]
True == [t |-> "boolean", b |-> TRUE]
False == [t |-> "boolean", b |-> FALSE]
\* A string; s is a TLA+ string (tokens, field names) or a sequence of
\* one-character strings (the strings of a JSON document).
Str(s) == [t |-> "string", s |-> s]
\* A number, by its digits.
Num(digits) == [t |-> "number", s |-> digits]
\* A plain object of a JSON document: m maps every key of Keys to its value,
\* Undefined for a key the object does not have.
Obj(m) == [t |-> "object", m |-> m]

\* JavaScript's ToBoolean, as `!x`, `x || y`, `x && y` and `x ? a : b` apply it.
Truthy(v) ==
  CASE v.t = "undefined" -> FALSE
    [] v.t = "null" -> FALSE
    [] v.t = "boolean" -> v.b
    [] v.t = "string" -> Len(v.s) > 0
    [] v.t = "number" -> v.s # <<"0">>
    [] OTHER -> TRUE

\* a || b
Or(a, b) == IF Truthy(a) THEN a ELSE b
\* a && b
And(a, b) == IF Truthy(a) THEN b ELSE a

-----------------------------------------------------------------------------
(* JSON documents.  A body is the sequence of its lexical tokens; the        *)
(* documents the provider sends are flat objects with scalar members.        *)

K_id == <<"i", "d">>
K_display_name == <<"d", "n">>
K_real_name == <<"r", "n">>
K_default_email == <<"d", "e">>
Keys == {K_id, K_display_name, K_real_name, K_default_email}
KeyOrder == <<K_id, K_display_name, K_real_name, K_default_email>>

Punct(k) == [k |-> k]
StrTok(s) == [k |-> "str", s |-> s]
NumTok(s) == [k |-> "num", s |-> s]
NullTok == [k |-> "null"]
\* A lexeme that is no JSON token, as the words of `not a JSON`.
JunkTok == [k |-> "junk"]

IsScalarTok(tok) == tok.k \in {"str", "num", "null"}

ScalarOf(tok) ==
  CASE tok.k = "str" -> Str(tok.s)
    [] tok.k = "num" -> Num(tok.s)
    [] OTHER -> Null

TokOf(v) ==
  CASE v.t = "string" -> StrTok(v.s)
    [] v.t = "number" -> NumTok(v.s)
    [] OTHER -> NullTok

NoMembers == [k \in Keys |-> Undefined]

\* The members of an object after its opening brace: key : scalar, then the
\* end or a comma and further members.  A later duplicate key wins.
RECURSIVE ParseMembers(_, _)
ParseMembers(toks, m) ==
  IF Len(toks) < 3 THEN [ok |-> FALSE]
  ELSE IF ~(toks[1].k = "str" /\ toks[2].k = ":" /\ IsScalarTok(toks[3]))
    THEN [ok |-> FALSE]
  ELSE LET m2 == IF toks[1].s \in Keys
                   THEN [m EXCEPT ![toks[1].s] = ScalarOf(toks[3])]
                   ELSE m
           rest == SubSeq(toks, 4, Len(toks))
       IN IF rest = <<>> THEN [ok |-> TRUE, value |-> Obj(m2)]
          ELSE IF rest[1].k = "," THEN ParseMembers(Tail(rest), m2)
          ELSE [ok |-> FALSE]

\* JSON.parse(body): the value, or ok = FALSE where JSON.parse throws a
\* SyntaxError.
JSONparse(body) ==
  IF Len(body) = 1 /\ IsScalarTok(body[1])
    THEN [ok |-> TRUE, value |-> ScalarOf(body[1])]
  ELSE IF Len(body) >= 2 /\ body[1].k = "{" /\ body[Len(body)].k = "}"
    THEN IF Len(body) = 2 THEN [ok |-> TRUE, value |-> Obj(NoMembers)]
         ELSE ParseMembers(SubSeq(body, 2, Len(body) - 1), NoMembers)
  ELSE [ok |-> FALSE]

\* JSON.stringify of a flat object: its defined members in key order.
RECURSIVE StringifyMembers(_, _, _)
StringifyMembers(m, i, first) ==
  IF i > Len(KeyOrder) THEN <<>>
  ELSE LET k == KeyOrder[i] IN
       IF m[k].t = "undefined" THEN StringifyMembers(m, i + 1, first)
       ELSE (IF first THEN <<>> ELSE <<Punct(",")>>)
            \o <<StrTok(k), Punct(":"), TokOf(m[k])>>
            \o StringifyMembers(m, i + 1, FALSE)

JSONstringify(v) ==
  IF v.t = "object"
    THEN <<Punct("{")>> \o StringifyMembers(v.m, 1, TRUE) \o <<Punct("}")>>
    ELSE <<TokOf(v)>>

\* json.key: a property read.  Reading a property of null throws a
\* TypeError; a primitive has none of the document's properties.
CanRead(json) == json.t \notin {"null", "undefined"}
Get(json, key) == IF json.t = "object" THEN json.m[key] ELSE Undefined

-----------------------------------------------------------------------------
(* String.prototype.split(separator, limit) with a one-character separator *)

RECURSIVE SplitAll(_, _, _)
SplitAll(s, sep, cur) ==
  IF s = <<>> THEN <<cur>>
  ELSE IF Head(s) = sep THEN <<cur>> \o SplitAll(Tail(s), sep, <<>>)
  ELSE SplitAll(Tail(s), sep, Append(cur, Head(s)))

split(s, sep, limit) ==
  LET all == SplitAll(s, sep, <<>>)
  IN IF Len(all) > limit THEN SubSeq(all, 1, limit) ELSE all

\* At with the index taken as one-based.
AtOneBased(array, i) ==
  IF 1 <= i /\ i <= Len(array) THEN Str(array[i]) ELSE Undefined

\* array[i] (zero-based): undefined past the end.
At(array, i) == IF i + 1 <= Len(array) THEN Str(array[i + 1]) ELSE Undefined

-----------------------------------------------------------------------------
(* Errors *)

\* new Error(...) and the other native errors: an object of the given class.
NativeError(class) == [t |-> "error", class |-> class, statusCode |-> Undefined]
SyntaxError == NativeError("SyntaxError")
TypeError == NativeError("TypeError")
\* An error object of the OAuth2 client that carries the response's status.
StatusError(code) == [t |-> "error", class |-> "Object", statusCode |-> code]

\* new InternalOAuthError(message, err) of passport-oauth.
InternalOAuthError(message, err) ==
  [t |-> "error", class |-> "InternalOAuthError", message |-> message,
   oauthError |-> err]

-----------------------------------------------------------------------------
(* userProfile(accessToken, done): the callback it hands to this._oauth2.get *)

\* Normalize with every exception wrapped as the fetch error is.
NormalizeWrapped(body) ==
  LET parse == JSONparse(body)
      wrapped == InternalOAuthError("Failed to fetch user profile", Undefined)
  IN
  IF ~parse.ok THEN [ok |-> FALSE, error |-> wrapped]
  ELSE LET json == parse.value
           real_name == Get(json, K_real_name)
       IN IF ~CanRead(json) THEN [ok |-> FALSE, error |-> wrapped]
          ELSE IF Truthy(real_name) /\ real_name.t # "string"
            THEN [ok |-> FALSE, error |-> wrapped]
          ELSE [ok |-> TRUE,
                profile |->
                  [provider |-> "yandex",
                   id |-> Get(json, K_id),
                   displayName |-> Get(json, K_display_name),
                   name |->
                     [familyName |-> IF Truthy(real_name)
                                       THEN At(split(real_name.s, " ", 2), 0)
                                       ELSE Str(<<>>),
                      givenName |-> IF Truthy(real_name)
                                      THEN At(split(real_name.s, " ", 2), 1)
                                      ELSE Str(<<>>)],
                   emails |-> <<[value |-> Get(json, K_default_email)]>>,
                   photos |-> <<>>,
                   _raw |-> body,
                   _json |-> json]]

\* The body of the try block up to `return done(null, profile)`: the profile,
\* or the exception thrown on the way (caught by the catch clause).
Normalize(body) ==
  LET parse == JSONparse(body) IN
  IF ~parse.ok THEN [ok |-> FALSE, error |-> SyntaxError]
  ELSE LET json == parse.value
           real_name == Get(json, K_real_name)
       IN IF ~CanRead(json) THEN [ok |-> FALSE, error |-> TypeError]
          ELSE IF Truthy(real_name) /\ real_name.t # "string"
            THEN [ok |-> FALSE, error |-> TypeError]
          ELSE [ok |-> TRUE,
                profile |->
                  [provider |-> "yandex",
                   id |-> Get(json, K_id),
                   displayName |-> Get(json, K_display_name),
                   name |->
                     [familyName |-> IF Truthy(real_name)
                                       THEN At(split(real_name.s, " ", 2), 0)
                                       ELSE Str(<<>>),
                      givenName |-> IF Truthy(real_name)
                                      THEN At(split(real_name.s, " ", 2), 1)
                                      ELSE Str(<<>>)],
                   emails |-> <<[value |-> Get(json, K_default_email)]>>,
                   photos |-> <<>>,
                   _raw |-> body,
                   _json |-> json]]

\* One invocation done(error, profile); done(e) passes no profile.  parsed
\* tells whether JSON.parse ran before it, inTry whether the invocation
\* stands inside the try block.
Delivery(error, profile, parsed, inTry) ==
  [error |-> error, profile |-> profile, parsed |-> parsed, inTry |-> inTry]

\* UserProfileCallback that wraps the client's error itself, not its status
\* code.
UserProfileCallbackWholeError(error, body) ==
  IF Truthy(error)
    THEN Delivery(InternalOAuthError("Failed to fetch user profile", error),
                  Undefined, FALSE, FALSE)
  ELSE LET n == Normalize(body) IN
       IF n.ok THEN Delivery(Null, [t |-> "object", p |-> n.profile], TRUE, TRUE)
       ELSE Delivery(n.error, Undefined, TRUE, FALSE)

\* The invocation of done that the OAuth2 client's callback(error, body)
\* makes first.
UserProfileCallback(error, body) ==
  IF Truthy(error)
    THEN Delivery(InternalOAuthError("Failed to fetch user profile",
                                     error.statusCode),
                  Undefined, FALSE, FALSE)
  ELSE LET n == Normalize(body) IN
       IF n.ok THEN Delivery(Null, [t |-> "object", p |-> n.profile], TRUE, TRUE)
       ELSE Delivery(n.error, Undefined, TRUE, FALSE)

\* The catch clause: an exception thrown by the invocation of done inside
\* the try block is handed to done once more; thrown anywhere else it leaves
\* the callback.
CatchClause(first, exception) ==
  IF first.inTry THEN <<Delivery(exception, Undefined, first.parsed, FALSE)>>
  ELSE <<>>

-----------------------------------------------------------------------------
(* The constructor *)

OptionKeys ==
  {"clientID", "clientSecret", "authorizationURL", "tokenURL", "profileURL",
   "accessTokenField", "refreshTokenField", "passReqToCallback"}

\* {} as an options object.
EmptyOptions == [t |-> "object", o |-> [k \in OptionKeys |-> Undefined]]

\* The constructor of the base class OAuth2Strategy (package passport-oauth):
\* it throws unless clientID and clientSecret are given, and otherwise makes
\* the OAuth2 client this._oauth2.
OAuth2Strategy(opts) ==
  IF ~Truthy(opts.o["clientID"]) \/ ~Truthy(opts.o["clientSecret"])
    THEN [threw |-> TRUE]
    ELSE [threw |-> FALSE,
          oauth2 |-> [clientID |-> opts.o["clientID"],
                      clientSecret |-> opts.o["clientSecret"],
                      accessTokenName |-> "access_token",
                      useAuthorizationHeaderForGET |-> FALSE]]

\* CtorOptions that also writes defaults for the client's credentials.
CtorOptionsWithCredentials(_options) ==
  LET opts == Or(_options, EmptyOptions) IN
  [opts EXCEPT
     !.o["clientID"] = Or(opts.o["clientID"], Str("yandex")),
     !.o["clientSecret"] = Or(opts.o["clientSecret"], Str("yandex")),
     !.o["authorizationURL"] =
        Or(opts.o["authorizationURL"], Str("https://oauth.yandex.ru/authorize")),
     !.o["tokenURL"] =
        Or(opts.o["tokenURL"], Str("https://oauth.yandex.ru/token"))]

\* let options = _options || {}, and the two URL defaults written into it.
CtorOptions(_options) ==
  LET opts == Or(_options, EmptyOptions) IN
  [opts EXCEPT
     !.o["authorizationURL"] =
        Or(opts.o["authorizationURL"], Str("https://oauth.yandex.ru/authorize")),
     !.o["tokenURL"] =
        Or(opts.o["tokenURL"], Str("https://oauth.yandex.ru/token"))]

\* The fields the constructor sets after super(options, verify) returned.
CtorFields(opts, base) ==
  [name |-> "yandex-token",
   accessTokenField |-> Or(opts.o["accessTokenField"], Str("access_token")),
   refreshTokenField |-> Or(opts.o["refreshTokenField"], Str("refresh_token")),
   profileURL |-> Or(opts.o["profileURL"],
                     Str("https://login.yandex.ru/info?format=json")),
   passReqToCallback |-> opts.o["passReqToCallback"],
   oauth2 |-> [base.oauth2 EXCEPT !.accessTokenName = "oauth_token",
                                  !.useAuthorizationHeaderForGET = TRUE]]

\* No instance: the value of `strategy` before and without a construction.
NoStrategy == [name |-> "none"]

\* new YandexTokenStrategy(_options, verify)
YandexTokenStrategy(_options) ==
  LET opts == CtorOptions(_options)
      base == OAuth2Strategy(opts)
  IN IF base.threw
       THEN [threw |-> TRUE, options |-> opts, instance |-> NoStrategy]
       ELSE [threw |-> FALSE, options |-> opts,
             instance |-> CtorFields(opts, base)]

\* The options objects the integrator constructs the strategy with.
Options(cid, sec, atf, rtf, prc) ==
  [EmptyOptions EXCEPT !.o["clientID"] = cid, !.o["clientSecret"] = sec,
                       !.o["accessTokenField"] = atf,
                       !.o["refreshTokenField"] = rtf,
                       !.o["passReqToCallback"] = prc]

OptionChoices ==
  {Undefined} \cup
  {Options(cid, sec, f[1], f[2], prc) :
     cid \in {Undefined, Str("123")}, sec \in {Undefined, Str("123")},
     f \in {<<Undefined, Undefined>>, <<Str("token"), Str("rtoken")>>},
     prc \in {Undefined, True}}

\* STRATEGY_CONFIG of the unit tests.
STRATEGY_CONFIG ==
  Options(Str("123"), Str("123"), Undefined, Undefined, Undefined)

-----------------------------------------------------------------------------
(* Requests *)

Attempts == 1..NumAttempts

FieldNames == {"access_token", "refresh_token", "token", "rtoken"}

\* A container (req.body, req.query, req.headers) with the given fields.
Container(f) ==
  [t |-> "object",
   f |-> [k \in FieldNames |-> IF k \in DOMAIN f THEN f[k] ELSE Undefined]]

\* container[name]
Field(container, name) ==
  IF container.t = "object" /\ name.s \in DOMAIN container.f
    THEN container.f[name.s]
    ELSE Undefined

Request(body, query, headers) ==
  [t |-> "object", body |-> body, query |-> query, headers |-> headers]

\* The tokens of attempt a's request: each attempt has its own.
Token(label, a) == Str(label \o ToString(a))
EmptyString == Str("")

\* The requests of the first attempt: the token in the body, in the query,
\* in both, empty, under the configured names, in the headers, nowhere.
RichRequests(a) ==
  { Request(Undefined, Undefined, Undefined),
    Request(Container([access_token |-> Token("bA", a),
                       refresh_token |-> Token("bR", a)]),
            Undefined, Undefined),
    Request(Undefined,
            Container([access_token |-> Token("qA", a),
                       refresh_token |-> Token("qR", a)]),
            Undefined),
    Request(Container([access_token |-> Token("bA", a)]),
            Container([access_token |-> Token("qA", a),
                       refresh_token |-> Token("qR", a)]),
            Undefined),
    Request(Container([access_token |-> EmptyString,
                       refresh_token |-> Token("bR", a)]),
            Container([access_token |-> Token("qA", a),
                       refresh_token |-> EmptyString]),
            Undefined),
    Request(Container([access_token |-> EmptyString,
                       refresh_token |-> EmptyString]),
            Container([refresh_token |-> Token("qR", a)]),
            Undefined),
    Request(Container([refresh_token |-> Token("bR", a)]),
            Container([access_token |-> EmptyString]),
            Undefined),
    Request(Container([token |-> Token("bA", a)]),
            Container([token |-> Token("qA", a), rtoken |-> Token("qR", a)]),
            Undefined),
    Request(Undefined, Undefined,
            Container([access_token |-> Token("hA", a),
                       token |-> Token("hA", a)])) }

\* The requests of the attempts that run beside the first.
PlainRequests(a) ==
  { Request(Container([access_token |-> Token("bA", a),
                       refresh_token |-> Token("bR", a),
                       token |-> Token("bA", a),
                       rtoken |-> Token("bR", a)]),
            Undefined, Undefined) }

Requests(a) == IF a = 1 THEN RichRequests(a) ELSE PlainRequests(a)

-----------------------------------------------------------------------------
(* What the OAuth2 client answers *)

Doc(id, display_name, real_name, default_email) ==
  Obj([k \in Keys |-> CASE k = K_id -> id
                        [] k = K_display_name -> display_name
                        [] k = K_real_name -> real_name
                        [] OTHER -> default_email])

NameChars == {"E", "O", " "}
Names == UNION {[1..n -> NameChars] : n \in 0..MaxNameLen}
RealNames ==
  {Undefined, Null, Num(<<"0">>), Num(<<"4">>)} \cup {Str(n) : n \in Names}

\* The JSON objects a body may hold.
ProfileDocs ==
  {Doc(id, dn, rn, de) :
     id \in {Undefined, Str(<<"7">>)}, dn \in {Undefined, Str(<<"g">>)},
     rn \in RealNames, de \in {Undefined, Str(<<"m">>)}}

\* 'not a JSON' of the unit tests.
NotJSON == <<JunkTok, JunkTok, JunkTok>>

\* Bodies JSON.parse rejects: not JSON, empty, a missing brace, a trailing
\* comma, a missing colon.
MalformedBodies ==
  {NotJSON, <<>>,
   <<Punct("{"), StrTok(K_id), Punct(":"), StrTok(<<"7">>)>>,
   <<Punct("{"), StrTok(K_id), Punct(":"), StrTok(<<"7">>), Punct(","),
     Punct("}")>>,
   <<Punct("{"), StrTok(K_id), StrTok(<<"7">>), Punct("}")>>}

\* Bodies that are JSON but no object.
ScalarBodies ==
  {JSONstringify(Null), JSONstringify(Num(<<"4">>)), JSONstringify(Str(<<"E">>))}

Bodies ==
  {JSONstringify(d) : d \in ProfileDocs} \cup ScalarBodies \cup MalformedBodies

\* The error argument of the client's callback: none, new Error('ERROR'), an
\* object with the response's status code.
GetErrors == {Null, NativeError("Error"), StatusError(Num(<<"4", "0", "1">>))}

\* test/fixtures/profile: the document of the account that owns attempt a's
\* access token.
fakeProfile(a) ==
  JSONstringify(Doc(Str(<<ToString(a)>>), Str(<<"g">>),
                    Str(<<"O", " ", "E">>), Str(<<"m">>)))

GetAnswer(error, body) == [error |-> error, body |-> body]

\* What the client answers to the GET of attempt a.
Answers(a) ==
  IF a = 1
    THEN {GetAnswer(Null, fakeProfile(a)),
          GetAnswer(Null, JSONstringify(Doc(Undefined, Undefined, Str(<<"E">>),
                                            Undefined))),
          GetAnswer(Null, NotJSON),
          GetAnswer(Null, JSONstringify(Null)),
          GetAnswer(NativeError("Error"), NotJSON),
          GetAnswer(StatusError(Num(<<"4", "0", "1">>)), fakeProfile(a))}
    ELSE {GetAnswer(Null, fakeProfile(a)),
          GetAnswer(StatusError(Num(<<"4", "0", "1">>)), NotJSON)}

-----------------------------------------------------------------------------
(* The integrator's verify function *)

User == [t |-> "object", id |-> "user"]
Info == [t |-> "object", info |-> "foo"]

\* The arguments of one invocation verified(error, user, info).
DoneArgs ==
  [error : {Null, NativeError("Error")}, user : {False, User},
   info : {Undefined, Info}]

\* What verify does before it returns: it invokes verified at most once and
\* returns, or throws after that.
VerifyRuns(a) ==
  IF a = 1
    THEN [dones : {<<>>} \cup {<<d>> : d \in DoneArgs}, throws : BOOLEAN]
    ELSE {[dones |-> <<[error |-> Null, user |-> User, info |-> Info]>>,
           throws |-> FALSE]}

\* The exception a verify function throws (a failed assertion, as in the
\* verify functions of the unit tests).
VerifyException == NativeError("AssertionError")

-----------------------------------------------------------------------------
(* authenticate(req, options) *)

\* The completion callbacks of the passport base class, by what they are
\* given.
success(user, info) == [kind |-> "success", user |-> user, info |-> info]
fail(info) == [kind |-> "fail", info |-> info]
error(err) == [kind |-> "error", error |-> err]

\* {message: `You should provide ${field}`}
Message(field) == [t |-> "object", message |-> "You should provide " \o field.s]

\* ExtractToken with the query looked up before the body.
ExtractTokenQueryFirst(req, field) ==
  Or(And(req.query, Field(req.query, field)),
     And(req.body, Field(req.body, field)))

\* (req.body && req.body[field]) || (req.query && req.query[field])
ExtractToken(req, field) ==
  Or(And(req.body, Field(req.body, field)),
     And(req.query, Field(req.query, field)))

\* verified with the user tested before the error.
verifiedUserFirst(err, user, info) ==
  IF ~Truthy(user) THEN fail(info)
  ELSE IF Truthy(err) THEN error(err)
  ELSE success(user, info)

\* const verified = (error, user, info) => ...
verified(err, user, info) ==
  IF Truthy(err) THEN error(err)
  ELSE IF ~Truthy(user) THEN fail(info)
  ELSE success(user, info)

\* VerifyArgs that never passes the request.
VerifyArgsWithoutReq(self, req, accessToken, refreshToken, profile) ==
  <<accessToken, refreshToken, profile>>

\* The arguments this._verify is invoked with (the callback verified aside).
VerifyArgs(self, req, accessToken, refreshToken, profile) ==
  IF Truthy(self.passReqToCallback)
    THEN <<req, accessToken, refreshToken, profile>>
    ELSE <<accessToken, refreshToken, profile>>

\* An attempt nobody has started.
IdleAttempt ==
  [pc |-> "idle", req |-> Undefined, accessToken |-> Undefined,
   refreshToken |-> Undefined, gets |-> <<>>, answers |-> <<>>,
   delivered |-> <<>>, verifyCalls |-> <<>>, dones |-> <<>>, outcomes |-> <<>>]

RECURSIVE VerifiedAll(_)
VerifiedAll(dones) ==
  IF dones = <<>> THEN <<>>
  ELSE <<verified(Head(dones).error, Head(dones).user, Head(dones).info)>>
       \o VerifiedAll(Tail(dones))

\* Loaded without the return after this.error(error): the verify function
\* is invoked all the same.
LoadedNoReturn(self, at, d, run) ==
  LET seen == [at EXCEPT !.delivered = Append(@, d)]
      erred == IF Truthy(d.error)
                 THEN [seen EXCEPT !.outcomes = Append(@, error(d.error))]
                 ELSE seen
  IN [at |-> [erred EXCEPT
                !.verifyCalls =
                   Append(@, VerifyArgs(self, at.req, at.accessToken,
                                        at.refreshToken, d.profile)),
                !.dones = @ \o run.dones,
                !.outcomes = @ \o VerifiedAll(run.dones)],
      threw |-> run.throws]

\* Loaded that drops the error of a failed profile load instead of handing
\* it to this.error.
LoadedDropsError(self, at, d, run) ==
  LET seen == [at EXCEPT !.delivered = Append(@, d)] IN
  IF Truthy(d.error)
    THEN [at |-> seen, threw |-> FALSE]
    ELSE [at |-> [seen EXCEPT
                    !.verifyCalls =
                       Append(@, VerifyArgs(self, at.req, at.accessToken,
                                            at.refreshToken, d.profile)),
                    !.dones = @ \o run.dones,
                    !.outcomes = @ \o VerifiedAll(run.dones)],
          threw |-> run.throws]

\* The callback (error, profile) => ... that authenticate hands to
\* _loadUserProfile, invoked with one delivery of userProfile; run is what
\* the verify function does when it is invoked.  threw: an exception left
\* the callback.
Loaded(self, at, d, run) ==
  LET seen == [at EXCEPT !.delivered = Append(@, d)] IN
  IF Truthy(d.error)
    THEN [at |-> [seen EXCEPT !.outcomes = Append(@, error(d.error))],
          threw |-> FALSE]
    ELSE [at |-> [seen EXCEPT
                    !.verifyCalls =
                       Append(@, VerifyArgs(self, at.req, at.accessToken,
                                            at.refreshToken, d.profile)),
                    !.dones = @ \o run.dones,
                    !.outcomes = @ \o VerifiedAll(run.dones)],
          threw |-> run.throws]

\* Fetched that issues the GET once more when the first one failed, before
\* the error is reported.
FetchedRetries(self, at, answer, run) ==
  LET first == UserProfileCallback(answer.error, answer.body)
      asked == IF Truthy(answer.error)
                 THEN [at EXCEPT !.gets = Append(@, [url |-> self.profileURL,
                                                     token |-> at.accessToken])]
                 ELSE at
      r1 == Loaded(self, [asked EXCEPT !.answers = Append(@, answer)],
                   first, run)
      again == IF r1.threw THEN CatchClause(first, VerifyException) ELSE <<>>
  IN IF again = <<>> THEN r1.at
     ELSE Loaded(self, r1.at, again[1], run).at

\* The callback userProfile hands to this._oauth2.get, with authenticate's
\* callback as done.
Fetched(self, at, answer, run) ==
  LET first == UserProfileCallback(answer.error, answer.body)
      r1 == Loaded(self, [at EXCEPT !.answers = Append(@, answer)], first, run)
      again == IF r1.threw THEN CatchClause(first, VerifyException) ELSE <<>>
  IN IF again = <<>> THEN r1.at
     ELSE Loaded(self, r1.at, again[1], run).at

\* Authenticated without the return after this.fail(...): the profile is
\* asked for all the same.
AuthenticatedNoReturn(self, at, req) ==
  LET accessToken == ExtractToken(req, self.accessTokenField)
      refreshToken == ExtractToken(req, self.refreshTokenField)
      started == [at EXCEPT !.req = req, !.accessToken = accessToken,
                            !.refreshToken = refreshToken]
      failed == IF ~Truthy(accessToken)
                  THEN [started EXCEPT
                          !.outcomes =
                             Append(@, fail(Message(self.accessTokenField)))]
                  ELSE started
  IN [failed EXCEPT
        !.pc = "fetching",
        !.gets = Append(@, [url |-> self.profileURL, token |-> accessToken])]

\* Authenticated that wants the refresh token as well as the access token.
AuthenticatedNeedsRefresh(self, at, req) ==
  LET accessToken == ExtractToken(req, self.accessTokenField)
      refreshToken == ExtractToken(req, self.refreshTokenField)
      started == [at EXCEPT !.req = req, !.accessToken = accessToken,
                            !.refreshToken = refreshToken]
  IN IF ~Truthy(accessToken) \/ ~Truthy(refreshToken)
       THEN [started EXCEPT
               !.pc = "returned",
               !.outcomes = Append(@, fail(Message(self.accessTokenField)))]
       ELSE [started EXCEPT
               !.pc = "fetching",
               !.gets = Append(@, [url |-> self.profileURL,
                                   token |-> accessToken])]

\* authenticate(req): the tokens, then fail or the GET of the profile
\* (_loadUserProfile calls userProfile, which calls this._oauth2.get).
Authenticated(self, at, req) ==
  LET accessToken == ExtractToken(req, self.accessTokenField)
      refreshToken == ExtractToken(req, self.refreshTokenField)
      started == [at EXCEPT !.req = req, !.accessToken = accessToken,
                            !.refreshToken = refreshToken]
  IN IF ~Truthy(accessToken)
       THEN [started EXCEPT
               !.pc = "returned",
               !.outcomes = Append(@, fail(Message(self.accessTokenField)))]
       ELSE [started EXCEPT
               !.pc = "fetching",
               !.gets = Append(@, [url |-> self.profileURL,
                                   token |-> accessToken])]

-----------------------------------------------------------------------------
(* The strategy at work *)

NoDirect == [called |-> FALSE]

Init ==
  /\ ctor = "new"
  /\ options = [arg |-> Undefined, obj |-> Undefined]
  /\ strategy = NoStrategy
  /\ att = [a \in Attempts |-> IdleAttempt]
  /\ direct = NoDirect

\* passport.use(new YandexTokenStrategy(options, verify))
Construct ==
  /\ ctor = "new"
  /\ \E o \in OptionChoices :
       LET made == YandexTokenStrategy(o) IN
       /\ ctor' = IF made.threw THEN "thrown" ELSE "constructed"
       /\ options' = [arg |-> o, obj |-> made.options]
       /\ strategy' = made.instance
  /\ UNCHANGED <<att, direct>>

\* Authenticate that keeps the request and its tokens in one place of the
\* instance, which the callbacks of every attempt in flight read.
AuthenticateShared(a) ==
  /\ ctor = "constructed"
  /\ att[a].pc = "idle"
  /\ \E req \in Requests(a) :
       LET mine == Authenticated(strategy, att[a], req) IN
       att' = [b \in Attempts |->
                 IF b = a THEN mine
                 ELSE IF att[b].pc = "fetching"
                   THEN [att[b] EXCEPT !.req = mine.req,
                                       !.accessToken = mine.accessToken,
                                       !.refreshToken = mine.refreshToken]
                 ELSE att[b]]
  /\ UNCHANGED <<ctor, options, strategy, direct>>

\* A request arrives and passport calls authenticate(req).
Authenticate(a) ==
  /\ ctor = "constructed"
  /\ att[a].pc = "idle"
  /\ \E req \in Requests(a) :
       att' = [att EXCEPT ![a] = Authenticated(strategy, att[a], req)]
  /\ UNCHANGED <<ctor, options, strategy, direct>>

\* GetCallback that also turns the client's Authorization header for GET off
\* again.
GetCallbackResetsHeader(a) ==
  /\ att[a].pc = "fetching"
  /\ \E answer \in Answers(a), run \in VerifyRuns(a) :
       att' = [att EXCEPT
                 ![a] = [Fetched(strategy, att[a], answer, run)
                           EXCEPT !.pc = "returned"]]
  /\ strategy' = [strategy EXCEPT !.oauth2.useAuthorizationHeaderForGET = FALSE]
  /\ UNCHANGED <<ctor, options, direct>>

\* The OAuth2 client completes the GET of attempt a and invokes its callback,
\* which runs to its end: userProfile's callback, authenticate's callback,
\* the verify function up to its return or throw.
GetCallback(a) ==
  /\ att[a].pc = "fetching"
  /\ \E answer \in Answers(a), run \in VerifyRuns(a) :
       att' = [att EXCEPT
                 ![a] = [Fetched(strategy, att[a], answer, run)
                           EXCEPT !.pc = "returned"]]
  /\ UNCHANGED <<ctor, options, strategy, direct>>

\* The verify function invokes verified after it returned (from a database
\* callback, say), possibly not for the first time.
VerifiedLater(a) ==
  /\ att[a].verifyCalls # <<>>
  /\ Len(att[a].dones) < (IF a = 1 THEN MaxDone ELSE 1)
  /\ \E d \in DoneArgs :
       att' = [att EXCEPT
                 ![a].dones = Append(@, d),
                 ![a].outcomes = Append(@, verified(d.error, d.user, d.info))]
  /\ UNCHANGED <<ctor, options, strategy, direct>>

Next ==
  \/ Construct
  \/ \E a \in Attempts : Authenticate(a)
  \/ \E a \in Attempts : GetCallback(a)
  \/ \E a \in Attempts : VerifiedLater(a)

Spec == Init /\ [][Next]_vars


-----------------------------------------------------------------------------
(* userProfile called on its own, as the unit tests call it *)

\* The exception a done callback throws.
DoneException == NativeError("AssertionError")

InitProfile ==
  LET made == YandexTokenStrategy(STRATEGY_CONFIG) IN
  /\ ctor = "constructed"
  /\ options = [arg |-> STRATEGY_CONFIG, obj |-> made.options]
  /\ strategy = made.instance
  /\ att = [a \in Attempts |-> IdleAttempt]
  /\ direct = NoDirect

\* strategy.userProfile('accessToken', done) with the client's answer; done
\* records what it is given and returns or throws.
UserProfile ==
  /\ ~direct.called
  /\ \E err \in GetErrors, body \in Bodies, throws \in BOOLEAN :
       LET first == UserProfileCallback(err, body) IN
       direct' = [called |-> TRUE,
                  get |-> [url |-> strategy.profileURL,
                           token |-> Str("accessToken")],
                  error |-> err,
                  body |-> body,
                  throws |-> throws,
                  delivered |-> <<first>> \o
                    (IF throws THEN CatchClause(first, DoneException)
                               ELSE <<>>)]
  /\ UNCHANGED <<ctor, options, strategy, att>>

NextProfile == UserProfile

SpecProfile == InitProfile /\ [][NextProfile]_vars

\* The invocations of authenticate on the strategy of the unit tests.
NextAuthenticate ==
  \/ \E a \in Attempts : Authenticate(a)
  \/ \E a \in Attempts : GetCallback(a)
  \/ \E a \in Attempts : VerifiedLater(a)

\* The constructed strategy under the two assumptions its callers are held
\* to: the OAuth2 client eventually invokes the callback of every GET it was
\* handed, and the verify function eventually invokes the callback it was
\* given.
SpecFair ==
  /\ InitProfile /\ [][NextAuthenticate]_vars
  /\ \A a \in Attempts : WF_vars(GetCallback(a))
  /\ \A a \in Attempts : WF_vars(VerifiedLater(a))

-----------------------------------------------------------------------------
(* lib/Strategy.js: the strategy as the file in lib/ defines it.  Its       *)
(* userProfile and the callback of _loadUserProfile are those of            *)
(* src/index.js; its constructor and its token lookup differ.               *)

\* var options = _options || {}, and the three URL defaults written into it.
LibCtorOptions(_options) ==
  LET opts == Or(_options, EmptyOptions) IN
  [opts EXCEPT
     !.o["authorizationURL"] =
        Or(opts.o["authorizationURL"], Str("https://oauth.yandex.ru/authorize")),
     !.o["tokenURL"] =
        Or(opts.o["tokenURL"], Str("https://oauth.yandex.ru/token")),
     !.o["profileURL"] =
        Or(opts.o["profileURL"], Str("https://login.yandex.ru/info?format=json"))]

\* The fields the constructor sets after OAuth2Strategy.call(this, ...).
LibCtorFields(opts, base) ==
  [name |-> "yandex-token",
   profileURL |-> opts.o["profileURL"],
   passReqToCallback |-> opts.o["passReqToCallback"],
   oauth2 |-> [base.oauth2 EXCEPT !.accessTokenName = "oauth_token",
                                  !.useAuthorizationHeaderForGET = TRUE]]

\* new YandexTokenStrategy(_options, _verify) of lib/Strategy.js
LibYandexTokenStrategy(_options) ==
  LET opts == LibCtorOptions(_options)
      base == OAuth2Strategy(opts)
  IN IF base.threw
       THEN [threw |-> TRUE, options |-> opts, instance |-> NoStrategy]
       ELSE [threw |-> FALSE, options |-> opts,
             instance |-> LibCtorFields(opts, base)]

\* (req.body && req.body.access_token) || (req.query && req.query.access_token)
\*   || (req.headers && req.headers.access_token), and so for refresh_token
LibExtractToken(req, field) ==
  Or(Or(And(req.body, Field(req.body, field)),
        And(req.query, Field(req.query, field))),
     And(req.headers, Field(req.headers, field)))

\* authenticate(req) of lib/Strategy.js: the tokens, then fail or the GET of
\* the profile.
LibAuthenticated(self, at, req) ==
  LET accessToken == LibExtractToken(req, Str("access_token"))
      refreshToken == LibExtractToken(req, Str("refresh_token"))
      started == [at EXCEPT !.req = req, !.accessToken = accessToken,
                            !.refreshToken = refreshToken]
  IN IF ~Truthy(accessToken)
       THEN [started EXCEPT
               !.pc = "returned",
               !.outcomes = Append(@, fail(Message(Str("access_token"))))]
       ELSE [started EXCEPT
               !.pc = "fetching",
               !.gets = Append(@, [url |-> self.profileURL,
                                   token |-> accessToken])]

\* The strategy of lib/Strategy.js, constructed with the configuration of
\* the unit tests, with and without passReqToCallback.
InitLib ==
  \E prc \in {Undefined, True} :
    LET o == Options(Str("123"), Str("123"), Undefined, Undefined, prc)
        made == LibYandexTokenStrategy(o)
    IN /\ ctor = "constructed"
       /\ options = [arg |-> o, obj |-> made.options]
       /\ strategy = made.instance
       /\ att = [a \in Attempts |-> IdleAttempt]
       /\ direct = NoDirect

\* A request arrives and passport calls authenticate(req) of lib/Strategy.js.
LibAuthenticate(a) ==
  /\ ctor = "constructed"
  /\ att[a].pc = "idle"
  /\ \E req \in Requests(a) :
       att' = [att EXCEPT ![a] = LibAuthenticated(strategy, att[a], req)]
  /\ UNCHANGED <<ctor, options, strategy, direct>>

NextLib ==
  \/ \E a \in Attempts : LibAuthenticate(a)
  \/ \E a \in Attempts : GetCallback(a)
  \/ \E a \in Attempts : VerifiedLater(a)

SpecLib == InitLib /\ [][NextLib]_vars

-----------------------------------------------------------------------------
(* Two invocations of authenticate side by side: their requests carry the   *)
(* same access token and differ in the refresh token only, the client gives *)
(* both the same answer and the verify function does the same for both.     *)

\* Where a request may carry its refresh token: nowhere, empty in the body,
\* in the body, in the query.
RefreshVariants == {"absent", "empty", "body", "query"}

PairFields(atf, at, rtf, rt) ==
  [n \in {atf, rtf} |-> IF n = atf THEN at ELSE rt]

\* The request with the access token in its body or in its query, under the
\* configured field names, and the refresh token as the variant says.
PairRequest(self, inBody, variant) ==
  LET atf == self.accessTokenField.s
      rtf == self.refreshTokenField.s
      bodyRefresh == CASE variant = "body" -> Token("R", 1)
                       [] variant = "empty" -> EmptyString
                       [] OTHER -> Undefined
      queryRefresh == IF variant = "query" THEN Token("R", 1) ELSE Undefined
  IN Request(Container(PairFields(atf, IF inBody THEN Token("A", 1)
                                                 ELSE Undefined,
                                  rtf, bodyRefresh)),
             Container(PairFields(atf, IF inBody THEN Undefined
                                                 ELSE Token("A", 1),
                                  rtf, queryRefresh)),
             Undefined)

\* A strategy constructed with credentials, under either pair of field names,
\* with and without passReqToCallback.
InitPair ==
  \E o \in {c \in OptionChoices : ~YandexTokenStrategy(c).threw} :
    LET made == YandexTokenStrategy(o) IN
    /\ ctor = "constructed"
    /\ options = [arg |-> o, obj |-> made.options]
    /\ strategy = made.instance
    /\ att = [a \in Attempts |-> IdleAttempt]
    /\ direct = NoDirect

\* authenticate(req) for the two requests.
PairAuthenticate ==
  /\ att[1].pc = "idle" /\ att[2].pc = "idle"
  /\ \E inBody \in BOOLEAN, v1 \in RefreshVariants, v2 \in RefreshVariants :
       /\ v1 # v2
       /\ att' = [att EXCEPT
                    ![1] = Authenticated(strategy, att[1],
                                         PairRequest(strategy, inBody, v1)),
                    ![2] = Authenticated(strategy, att[2],
                                         PairRequest(strategy, inBody, v2))]
  /\ UNCHANGED <<ctor, options, strategy, direct>>

\* The client answers both GETs alike and the verify function runs alike.
PairGetCallback ==
  /\ att[1].pc = "fetching" \/ att[2].pc = "fetching"
  /\ \E answer \in Answers(1), run \in VerifyRuns(1) :
       att' = [a \in Attempts |->
                 IF a \in {1, 2} /\ att[a].pc = "fetching"
                   THEN [Fetched(strategy, att[a], answer, run)
                           EXCEPT !.pc = "returned"]
                   ELSE att[a]]
  /\ UNCHANGED <<ctor, options, strategy, direct>>

\* The verify function, which returned without invoking verified, invokes it
\* now, alike for both.
PairVerifiedLater ==
  /\ att[1].verifyCalls # <<>> \/ att[2].verifyCalls # <<>>
  /\ att[1].dones = <<>> /\ att[2].dones = <<>>
  /\ \E d \in DoneArgs :
       att' = [a \in Attempts |->
                 IF a \in {1, 2} /\ att[a].verifyCalls # <<>>
                   THEN [att[a] EXCEPT
                           !.dones = Append(@, d),
                           !.outcomes =
                              Append(@, verified(d.error, d.user, d.info))]
                   ELSE att[a]]
  /\ UNCHANGED <<ctor, options, strategy, direct>>

NextPair ==
  \/ PairAuthenticate
  \/ PairGetCallback
  \/ PairVerifiedLater

SpecPair == InitPair /\ [][NextPair]_vars

-----------------------------------------------------------------------------
(* Claims *)

\* What the reference rule of the token extractor finds: the first present,
\* non-empty value of body[field], then query[field]; none: there is none.
Carries(container, name) ==
  /\ container.t = "object"
  /\ name \in DOMAIN container.f
  /\ container.f[name].t = "string"
  /\ container.f[name].s # ""

FirstNonEmpty(req, name) ==
  IF Carries(req.body, name) THEN [found |-> TRUE, value |-> req.body.f[name]]
  ELSE IF Carries(req.query, name)
    THEN [found |-> TRUE, value |-> req.query.f[name]]
  ELSE [found |-> FALSE]

\* A token is what the reference rule finds; where it finds nothing the
\* token is absent or empty.
AsExtracted(token, req, name) ==
  LET ref == FirstNonEmpty(req, name) IN
  IF ref.found THEN token = ref.value ELSE token \in {Undefined, EmptyString}

\* The field names in force, from the constructor's argument.
Configured(key, default) ==
  IF options.arg.t = "object" /\ options.arg.o[key].t = "string"
     /\ options.arg.o[key].s # ""
    THEN options.arg.o[key].s
    ELSE default

ConfiguredAccessTokenField == Configured("accessTokenField", "access_token")
ConfiguredRefreshTokenField == Configured("refreshTokenField", "refresh_token")

Started(a) == att[a].pc # "idle"

\* C1: for every invocation of authenticate the completion callbacks
\* success, fail and error fire at most once in total.
C1_AtMostOneOutcome ==
  \A a \in Attempts : Len(att[a].outcomes) <= 1


\* C2: a request in which neither body[accessTokenField] nor
\* query[accessTokenField] holds a non-empty value ends in
\* fail({message: "You should provide " + accessTokenField}) with the
\* configured field name, and neither the GET of the profile nor the verify
\* function is invoked for it.
C2_MissingTokenFails ==
  \A a \in Attempts :
    (Started(a) /\ ~FirstNonEmpty(att[a].req, ConfiguredAccessTokenField).found)
    => /\ att[a].outcomes =
            <<[kind |-> "fail",
               info |-> [t |-> "object",
                         message |-> "You should provide "
                                     \o ConfiguredAccessTokenField]]>>
       /\ att[a].gets = <<>>
       /\ att[a].delivered = <<>>
       /\ att[a].verifyCalls = <<>>

\* C2's case: under the field name "token" a request whose body carries an
\* access_token, but no token, has failed.
C2_Witness ==
  /\ ConfiguredAccessTokenField = "token"
  /\ Started(1)
  /\ Carries(att[1].req.body, "access_token")
  /\ ~FirstNonEmpty(att[1].req, "token").found
  /\ att[1].outcomes # <<>>

\* C3: the access token and the refresh token are, each on its own, the
\* first present, non-empty value of body[field], then query[field].
C3_ExtractionRule ==
  \A a \in Attempts :
    Started(a)
    => /\ AsExtracted(att[a].accessToken, att[a].req,
                      ConfiguredAccessTokenField)
       /\ AsExtracted(att[a].refreshToken, att[a].req,
                      ConfiguredRefreshTokenField)

\* C3's case: both containers carry an access token, the body's won, and
\* the refresh token came from the query.
C3_Witness ==
  /\ Started(1)
  /\ Carries(att[1].req.body, "access_token")
  /\ Carries(att[1].req.query, "access_token")
  /\ att[1].accessToken = att[1].req.body.f["access_token"]
  /\ att[1].accessToken # att[1].req.query.f["access_token"]
  /\ ~Carries(att[1].req.body, "refresh_token")
  /\ att[1].refreshToken = att[1].req.query.f["refresh_token"]

\* The rule of C4 for one invocation done(error, user, info).
C4_Rule(d) ==
  IF d.error # Null THEN [kind |-> "error", error |-> d.error]
  ELSE IF d.user = False THEN [kind |-> "fail", info |-> d.info]
  ELSE [kind |-> "success", user |-> d.user, info |-> d.info]

\* C4: every invocation done(error, user, info) of the verify function
\* fires, as the next outcome of its attempt: error(error) if error is
\* present; fail(info) if error is absent and user falsy; success(user, info)
\* otherwise.
C4_VerifiedRule ==
  [][\A a \in Attempts :
       LET before == Len(att[a].dones)
           n == Len(att'[a].dones) - before
           fired == Len(att[a].outcomes)
       IN n > 0
          => /\ Len(att'[a].outcomes) >= fired + n
             /\ \A i \in 1..n :
                  att'[a].outcomes[fired + i] = C4_Rule(att'[a].dones[before + i])
    ]_vars

\* C4's case: verify has answered done(null, false, info) and
\* done(null, user), and fail(info) and success(user) fired.
C4_Witness ==
  /\ Len(att[1].dones) = 2
  /\ att[1].dones[1] = [error |-> Null, user |-> False, info |-> Info]
  /\ att[1].dones[2] = [error |-> Null, user |-> User, info |-> Undefined]
  /\ att[1].outcomes[1].kind = "fail"
  /\ att[1].outcomes[2].kind = "success"

\* The client's answer is a transport error, or a body JSON.parse rejects.
FetchFailed(answer) == answer.error # Null \/ answer.body \in MalformedBodies

\* C5: when the fetch of the profile ends in a transport error or an
\* unparsable body, authenticate fires error(cause) with the error
\* userProfile delivered, verify is not invoked and neither success nor
\* fail fires.
C5_FetchFailureErrors ==
  \A a \in Attempts :
    (att[a].answers # <<>> /\ FetchFailed(att[a].answers[1]))
    => /\ Len(att[a].delivered) = 1
       /\ att[a].delivered[1].error # Null
       /\ att[a].outcomes =
            <<[kind |-> "error", error |-> att[a].delivered[1].error]>>
       /\ att[a].verifyCalls = <<>>
       /\ att[a].dones = <<>>

\* C5's case: a body that is not JSON has ended the attempt in
\* error(SyntaxError).
C5_Witness ==
  /\ att[1].answers # <<>>
  /\ att[1].answers[1] = [error |-> Null, body |-> NotJSON]
  /\ att[1].outcomes = <<[kind |-> "error", error |-> SyntaxError]>>


\* passReqToCallback as the constructor's argument gives it.
PassReqConfigured ==
  options.arg.t = "object" /\ options.arg.o["passReqToCallback"] = True

\* C8: with passReqToCallback the verify function is invoked as
\* verify(request, accessToken, refreshToken, profile, done) with the
\* attempt's own request; without it as verify(accessToken, refreshToken,
\* profile, done); the tokens are those extracted from the request.
C8_VerifyArguments ==
  \A a \in Attempts :
    \A i \in 1..Len(att[a].verifyCalls) :
      LET args == att[a].verifyCalls[i]
          k == IF PassReqConfigured THEN 1 ELSE 0
      IN /\ Len(args) = 3 + k
         /\ PassReqConfigured => args[1] = att[a].req
         /\ ~PassReqConfigured => \A j \in 1..Len(args) : args[j] # att[a].req
         /\ AsExtracted(args[1 + k], att[a].req, ConfiguredAccessTokenField)
         /\ AsExtracted(args[2 + k], att[a].req, ConfiguredRefreshTokenField)
         /\ args[3 + k] = att[a].delivered[1].profile

\* C8's case: with passReqToCallback the verify function was invoked, the
\* request first, the tokens of the query next.
C8_Witness ==
  /\ PassReqConfigured
  /\ att[1].verifyCalls # <<>>
  /\ att[1].verifyCalls[1][1] = att[1].req
  /\ att[1].verifyCalls[1][2] = att[1].req.query.f["access_token"]

\* The constructor's argument lacks the option, or there is no argument.
Lacks(key) == options.arg.t # "object" \/ options.arg.o[key] = Undefined

\* C10: constructing the strategy with no options, or with options lacking
\* clientID or clientSecret, throws: there is no instance, and authenticate
\* is never called.
C10_ConstructionThrows ==
  (ctor # "new" /\ (Lacks("clientID") \/ Lacks("clientSecret")))
  => /\ ctor = "thrown"
     /\ strategy = NoStrategy
     /\ \A a \in Attempts : att[a] = IdleAttempt

\* C10's case: a construction with a clientID and no clientSecret has
\* thrown.
C10_Witness ==
  /\ ctor = "thrown"
  /\ ~Lacks("clientID")
  /\ Lacks("clientSecret")


\* C6: when the client's GET signals an error, userProfile invokes done once,
\* with an InternalOAuthError whose message is "Failed to fetch user profile"
\* and which carries the error's status code (if it has one), with no
\* profile, and without parsing the body.
C6_TransportErrorWrapped ==
  (direct.called /\ direct.error # Null)
  => /\ Len(direct.delivered) = 1
     /\ direct.delivered[1].error =
          [t |-> "error", class |-> "InternalOAuthError",
           message |-> "Failed to fetch user profile",
           oauthError |-> direct.error.statusCode]
     /\ direct.delivered[1].profile = Undefined
     /\ ~direct.delivered[1].parsed

\* C6's case: an error with status 401 beside a body that is a profile
\* document.
C6_Witness ==
  /\ direct.called
  /\ direct.error = StatusError(Num(<<"4", "0", "1">>))
  /\ direct.body \in {JSONstringify(d) : d \in ProfileDocs}
  /\ direct.delivered[1].error.oauthError = Num(<<"4", "0", "1">>)

\* C7: when the GET succeeds and the body is not valid JSON, userProfile
\* delivers the SyntaxError of JSON.parse itself, which is no
\* InternalOAuthError, and no profile: a transport failure and a parse
\* failure differ in the class of the error delivered.
C7_ParseErrorNative ==
  direct.called
  => /\ (direct.error = Null /\ direct.body \in MalformedBodies)
        => /\ Len(direct.delivered) = 1
           /\ direct.delivered[1].error = SyntaxError
           /\ direct.delivered[1].error.class # "InternalOAuthError"
           /\ direct.delivered[1].profile = Undefined
     /\ direct.error # Null
        => direct.delivered[1].error.class = "InternalOAuthError"

\* C7's case: the body 'not a JSON' after a GET without error.
C7_Witness ==
  /\ direct.called
  /\ direct.error = Null
  /\ direct.body = NotJSON
  /\ direct.delivered[1].error.class = "SyntaxError"

\* The words of a real_name, by the places of its spaces.
Spaces(s) == {i \in 1..Len(s) : s[i] = " "}
Least(S) == CHOOSE x \in S : \A y \in S : x <= y
FirstWord(s) ==
  IF Spaces(s) = {} THEN s ELSE SubSeq(s, 1, Least(Spaces(s)) - 1)
SecondWord(s) ==
  LET first == Least(Spaces(s))
      later == {i \in Spaces(s) : i > first}
      stop == IF later = {} THEN Len(s) + 1 ELSE Least(later)
  IN SubSeq(s, first + 1, stop - 1)

\* The profile C9 describes for the document doc sent as body.
C9_Normalized(doc, body, d) ==
  LET rn == doc.m[K_real_name] IN
  /\ d.error = Null
  /\ d.profile.t = "object"
  /\ d.profile.p.provider = "yandex"
  /\ d.profile.p.id = doc.m[K_id]
  /\ d.profile.p.displayName = doc.m[K_display_name]
  /\ (rn.t = "string" /\ rn.s # <<>>)
     => d.profile.p.name.familyName = Str(FirstWord(rn.s))
  /\ (rn.t = "string" /\ Spaces(rn.s) # {})
     => d.profile.p.name.givenName = Str(SecondWord(rn.s))
  /\ d.profile.p.emails = <<[value |-> doc.m[K_default_email]]>>
  /\ d.profile.p.photos = <<>>
  /\ d.profile.p._raw = body
  /\ d.profile.p._json = doc

NamedByString(doc) ==
  doc.m[K_real_name].t = "string" \/ ~Truthy(doc.m[K_real_name])

OnlyInHeaders(req) ==
  /\ Carries(req.headers, "access_token")
  /\ ~FirstNonEmpty(req, "access_token").found

\* C11: a request whose access token appears only in its headers, not in its
\* body or query, is treated as carrying no access token: fail fires and the
\* profile is not fetched.
C11_OnlyBodyAndQuery ==
  \A a \in Attempts :
    (Started(a) /\ OnlyInHeaders(att[a].req))
    => /\ att[a].accessToken \in {Undefined, EmptyString}
       /\ att[a].outcomes # <<>>
       /\ att[a].outcomes[1].kind = "fail"
       /\ att[a].gets = <<>>


\* The attempt has fired success, fail or error.
Terminal(a) == att[a].outcomes # <<>>

\* C12: if the OAuth2 client eventually invokes its GET callback and the
\* verify function eventually invokes done, every invocation of authenticate
\* eventually fires success, fail or error: from some point on every attempt
\* that was started has fired an outcome (an attempt stays started and a
\* fired outcome stays fired, so this is "started leads to terminal").
C12_EventuallyTerminal ==
  <>[](\A a \in Attempts : Started(a) => Terminal(a))

\* An attempt whose verify function returned without invoking done and
\* invoked it later, which fired the outcome.
C12_Witness ==
  \E a \in Attempts :
    /\ att[a].verifyCalls # <<>>
    /\ Len(att[a].dones) = 1
    /\ Len(att[a].outcomes) = 1
    /\ att[a].outcomes[1].kind \in {"success", "fail"}

\* The body is a well-formed profile document: a JSON object carrying an id.
WellFormedDocument(body) ==
  LET j == JSONparse(body) IN
  j.ok /\ j.value.t = "object" /\ j.value.m[K_id] # Undefined

\* C13: when userProfile delivers a profile, its provider and its id are
\* defined, and for every body that is no JSON object carrying an id
\* (malformed, a JSON scalar, null, an object without id) userProfile
\* delivers an error and no profile.
C13_ProfileCompleteOrFailure ==
  (direct.called /\ direct.error = Null)
  => LET d == direct.delivered[1] IN
     /\ d.error = Null
        => /\ d.profile.p.provider = "yandex"
           /\ d.profile.p.id # Undefined
     /\ ~WellFormedDocument(direct.body)
        => /\ d.error # Null
           /\ d.profile = Undefined

\* The text of s before its first space and the text after it; a part that
\* is not there is the empty text.
BeforeFirstSpace(s) ==
  IF Spaces(s) = {} THEN s ELSE SubSeq(s, 1, Least(Spaces(s)) - 1)
AfterFirstSpace(s) ==
  IF Spaces(s) = {} THEN <<>> ELSE SubSeq(s, Least(Spaces(s)) + 1, Len(s))

\* C14: for every value of real_name, familyName and givenName of the profile
\* are strings: the text of real_name before its first space and the text
\* after it, and the empty string for a part that is absent (no real_name,
\* or no space in it); neither is ever undefined.
C14_SplitOnFirstSpace ==
  \A doc \in ProfileDocs :
    (direct.called /\ direct.error = Null
     /\ direct.body = JSONstringify(doc))
    => LET d == direct.delivered[1]
           rn == doc.m[K_real_name]
           text == IF rn.t = "string" THEN rn.s ELSE <<>>
       IN /\ d.error = Null
          /\ d.profile.p.name.familyName.t = "string"
          /\ d.profile.p.name.givenName.t = "string"
          /\ rn.t \in {"string", "undefined", "null"}
             => /\ d.profile.p.name.familyName = Str(BeforeFirstSpace(text))
                /\ d.profile.p.name.givenName = Str(AfterFirstSpace(text))

\* Every non-empty value a request carries, in its body, its query or its
\* headers.
ValuesOf(req) ==
  UNION {{c.f[n] : n \in {m \in DOMAIN c.f : Truthy(c.f[m])}} :
           c \in {x \in {req.body, req.query, req.headers} : x.t = "object"}}

\* C15: with several attempts in flight on one instance, in any interleaving
\* of their fetches and verifications, every invocation of the verify
\* function receives the tokens extracted from its own attempt's request and
\* the profile of the answer to its own attempt's GET, which carried that
\* attempt's access token; it receives no request, token or profile of any
\* other attempt.
C15_NoCrossAttemptLeak ==
  \A a \in Attempts :
    \A i \in 1..Len(att[a].verifyCalls) :
      LET args == att[a].verifyCalls[i]
          k == Len(args) - 3
          accessToken == args[1 + k]
          refreshToken == args[2 + k]
          profile == args[3 + k]
      IN /\ AsExtracted(accessToken, att[a].req, ConfiguredAccessTokenField)
         /\ AsExtracted(refreshToken, att[a].req, ConfiguredRefreshTokenField)
         /\ k = 1 => args[1] = att[a].req
         /\ Len(att[a].gets) = 1
         /\ att[a].gets[1].token = accessToken
         /\ profile.p._raw = att[a].answers[1].body
         /\ \A b \in Attempts \ {a} :
              Started(b)
              => /\ accessToken \notin ValuesOf(att[b].req)
                 /\ refreshToken \notin ValuesOf(att[b].req)
                 /\ k = 1 => args[1] # att[b].req
                 /\ \A j \in 1..Len(att[b].answers) :
                      profile.p._raw # att[b].answers[j].body

\* C15's case: the verify function of the second attempt has been invoked
\* while the fetch of the first, started with its own token, is pending.
C15_Witness ==
  /\ att[1].pc = "fetching"
  /\ Truthy(att[1].accessToken)
  /\ att[2].verifyCalls # <<>>
  /\ att[2].verifyCalls[1][Len(att[2].verifyCalls[1]) - 2] # att[1].accessToken

\* The configuration of the instance the claim C16 lists.
Configuration(s) ==
  <<s.name, s.accessTokenField, s.refreshTokenField, s.profileURL,
    s.passReqToCallback, s.oauth2.useAuthorizationHeaderForGET>>

\* C16: once the strategy is constructed, no call of authenticate or
\* userProfile, whatever its outcome, changes the configuration: the name
\* 'yandex-token', the two field names, the profile URL, passReqToCallback
\* and the client's Authorization header for GET.
C16_ConfigurationFrozen ==
  [][ctor = "constructed"
     => /\ Configuration(strategy') = Configuration(strategy)
        /\ strategy'.name = "yandex-token"
        /\ strategy'.oauth2.useAuthorizationHeaderForGET
    ]_vars

\* C16's case: under configured field names both attempts have fired an
\* outcome, one of them an error, and the configuration is the constructor's.
C16_Witness ==
  /\ ctor = "constructed"
  /\ \A a \in Attempts : att[a].outcomes # <<>>
  /\ \E a \in Attempts : att[a].outcomes[1].kind = "error"
  /\ Configuration(strategy) =
       <<"yandex-token", Str("token"), Str("rtoken"),
         Str("https://login.yandex.ru/info?format=json"), True, TRUE>>

\* C17: an attempt issues the GET of the profile at most once, to the
\* configured profile URL with the extracted access token; when that GET
\* fails, the step that receives the failure fires error and issues no
\* further GET.
C17_SingleFetch ==
  [][\A a \in Attempts :
       /\ Len(att'[a].gets) <= 1
       /\ att'[a].gets # <<>>
          => att'[a].gets[1] = [url |-> strategy'.profileURL,
                                token |-> att'[a].accessToken]
       /\ (Len(att'[a].answers) > Len(att[a].answers)
           /\ FetchFailed(att'[a].answers[1]))
          => /\ att[a].gets = att'[a].gets
             /\ Len(att[a].gets) = 1
             /\ att[a].outcomes = <<>>
             /\ Len(att'[a].outcomes) = 1
             /\ att'[a].outcomes[1].kind = "error"
    ]_vars

\* C17's case: the one GET of an attempt was answered with the status 401
\* and the attempt ended in error, with no second GET.
C17_Witness ==
  \E a \in Attempts :
    /\ Len(att[a].gets) = 1
    /\ att[a].answers # <<>>
    /\ att[a].answers[1].error = StatusError(Num(<<"4", "0", "1">>))
    /\ att[a].pc = "returned"
    /\ att[a].outcomes[1].kind = "error"

\* The arguments of a verify call without its refresh token.
WithoutRefresh(args) ==
  [j \in (1..Len(args)) \ {Len(args) - 1} |->
     IF j = 1 /\ Len(args) = 4 THEN "req" ELSE args[j]]

\* C18: of two requests that carry the same non-empty access token and
\* differ in the refresh token only (present, empty, absent), both lead to
\* the same GET, to the same deliveries, to verify calls with the same access
\* token and profile and to the same outcomes; each verify call receives the
\* refresh token as extracted from its own request, absent when the request
\* has none; and no fail for a missing token fires.
C18_RefreshTokenIrrelevant ==
  (Started(1) /\ Started(2))
  => /\ att[1].accessToken = att[2].accessToken
     /\ att[1].gets = att[2].gets
     /\ Len(att[1].gets) = 1
     /\ att[1].gets[1].token = Token("A", 1)
     /\ att[1].pc = att[2].pc
     /\ att[1].delivered = att[2].delivered
     /\ att[1].outcomes = att[2].outcomes
     /\ Len(att[1].verifyCalls) = Len(att[2].verifyCalls)
     /\ \A i \in 1..Len(att[1].verifyCalls) :
          /\ WithoutRefresh(att[1].verifyCalls[i])
               = WithoutRefresh(att[2].verifyCalls[i])
          /\ \A a \in {1, 2} :
               LET args == att[a].verifyCalls[i] IN
               /\ AsExtracted(args[Len(args) - 1], att[a].req,
                              ConfiguredRefreshTokenField)
               /\ ~FirstNonEmpty(att[a].req, ConfiguredRefreshTokenField).found
                  => args[Len(args) - 1] \in
                       {Undefined, EmptyString}
     /\ \A a \in {1, 2} : \A i \in 1..Len(att[a].outcomes) :
          att[a].outcomes[i] #
            [kind |-> "fail",
             info |-> [t |-> "object",
                       message |-> "You should provide "
                                   \o ConfiguredAccessTokenField]]

\* C18's case: the request without a refresh token and the request with one
\* in its query both ended in success, and the verify function received no
\* refresh token for the first and the query's for the second.
C18_Witness ==
  /\ att[1].refreshToken = Undefined
  /\ att[2].refreshToken = Token("R", 1)
  /\ att[1].verifyCalls # <<>> /\ att[2].verifyCalls # <<>>
  /\ att[1].verifyCalls[1][Len(att[1].verifyCalls[1]) - 1] = Undefined
  /\ att[2].verifyCalls[1][Len(att[2].verifyCalls[1]) - 1] = Token("R", 1)
  /\ att[1].outcomes = <<[kind |-> "success", user |-> User, info |-> Info]>>
  /\ att[2].outcomes = att[1].outcomes

\* C19: for one completion of the client's GET, userProfile invokes done
\* exactly once, with an error and no profile or with a profile and no
\* error, also when done (or what it calls) throws after the profile was
\* delivered.
C19_DoneExactlyOnce ==
  direct.called
  => /\ Len(direct.delivered) = 1
     /\ \A i \in 1..Len(direct.delivered) :
          (direct.delivered[i].error = Null)
            # (direct.delivered[i].profile = Undefined)
     /\ \A i \in 1..Len(direct.delivered), j \in 1..Len(direct.delivered) :
          (direct.delivered[i].error = Null)
            = (direct.delivered[j].error = Null)

=============================================================================
